---- MODULE Spec2Model ----
(***************************************************************************)
(* A model of src/backend/server.js: the in-memory task collection, the ID *)
(* counter and the Express route handlers that read and change them.       *)
(*                                                                         *)
(* A JSON value of a request body (or a query parameter) is a record with  *)
(* a kind k and, for a string, its text v.  A text is a sequence of        *)
(* tokens: the blank " " and opaque words, so that String.prototype.trim   *)
(* is computed and not assumed.  Every handler is an operator from the     *)
(* store and the request to the new store and the response; the actions    *)
(* apply the handlers to requests drawn from small sets.                   *)
(***************************************************************************)
EXTENDS Integers, Sequences, FiniteSets, TLC

VARIABLES
    tasks,      \* let tasks: the collection, in insertion order
    nextId,     \* let nextId: the ID counter
    now,        \* the clock new Date() reads
    issued,     \* history: the ids the successful creates returned, in order
    deleted,    \* history: the ids the successful deletes removed
    inflight,   \* the requests the server has received, one slot a client
    running,    \* the client whose handler holds the thread, or None
    serial      \* the store of a server that takes the requests one at a time

\* The variables of the requests in flight.
conc == <<inflight, running, serial>>

vars == <<tasks, nextId, now, issued, deleted, inflight, running, serial>>

(* ------------------------------ bounds --------------------------------- *)

\* The largest id a create may take from the counter.
MaxId == 3

\* The most tasks the collection holds at once.
MaxTasks == 2

\* The last instant the clock reaches.
MaxClock == 2

(* --------------------------- JSON values ------------------------------- *)

Undefined == [k |-> "undefined"]

Null == [k |-> "null"]

Str(s) == [k |-> "string", v |-> s]

\* A non-zero JSON number: truthy, and no string (it has no trim method).
Num == [k |-> "number"]

IsString(x) == x.k = "string"

\* JavaScript truthiness: undefined, null and "" are falsy.
Truthy(x) ==
    CASE x.k = "undefined" -> FALSE
      [] x.k = "null" -> FALSE
      [] x.k = "string" -> x.v # <<>>
      [] OTHER -> TRUE

RECURSIVE TrimStart(_)
TrimStart(s) ==
    IF s # <<>> /\ Head(s) = " " THEN TrimStart(Tail(s)) ELSE s

RECURSIVE TrimEnd(_)
TrimEnd(s) ==
    IF s # <<>> /\ s[Len(s)] = " " THEN TrimEnd(SubSeq(s, 1, Len(s) - 1)) ELSE s

\* String.prototype.trim
Trim(s) == TrimEnd(TrimStart(s))

PENDING == Str(<<"pending">>)

IN_PROGRESS == Str(<<"in-progress">>)

COMPLETED == Str(<<"completed">>)

\* ['pending', 'in-progress', 'completed']
ValidStatuses == {PENDING, IN_PROGRESS, COMPLETED}

(* ------------------------------ the store ------------------------------ *)

SeedTask ==
    [id |-> 1,
     title |-> Str(<<"Sample", " ", "Task">>),
     description |-> Str(<<"This", " ", "is", " ", "a", " ", "sample", " ", "task">>),
     status |-> PENDING,
     createdAt |-> 0,
     updatedAt |-> 0]

\* The clients that may have a request in flight at the same time.
Clients == {"c1", "c2"}

None == "none"

\* A client with no request in flight.
Idle == [pc |-> "idle"]

Init ==
    /\ tasks = <<SeedTask>>
    /\ nextId = 2
    /\ now = 0
    /\ issued = <<>>
    /\ deleted = {}
    /\ inflight = [c \in Clients |-> Idle]
    /\ running = None
    /\ serial = [tasks |-> <<SeedTask>>, nextId |-> 2]

(* ----------------------------- responses ------------------------------- *)

Absent == "absent"

NoData == [kind |-> "none"]

TaskData(t) == [kind |-> "task", task |-> t]

ListData(l) == [kind |-> "list", list |-> l]

\* res.status(code).json({...}): the fields the handler puts in the body.
Response(code, success, error, message, data) ==
    [code |-> code, success |-> success, error |-> error,
     message |-> message, data |-> data]

TitleRequired == "Title is required and cannot be empty"

StatusInvalid == "Status must be one of: pending, in-progress, completed"

StatusRequired == "Valid status is required: pending, in-progress, completed"

TaskNotFound == Response(404, "false", "Task not found", Absent, NoData)

\* The error handling middleware, reached when a handler throws.
InternalError == Response(500, "false", "Something went wrong!", Absent, NoData)

\* The 404 handler, reached when no route matches.
RouteNotFound == Response(404, "false", "Route not found", Absent, NoData)

Result(ts, nid, res) == [tasks |-> ts, nextId |-> nid, res |-> res]

(* ------------------------- validation and lookup ----------------------- *)

Next400(res) == [next |-> FALSE, res |-> res]

PassOn == [next |-> TRUE]

\* validateTask with the title compared to '' untrimmed: a blank title passes.
validateTaskUntrimmed(body) ==
    IF ~Truthy(body.title)
    THEN Next400(Response(400, Absent, TitleRequired, Absent, NoData))
    ELSE IF ~IsString(body.title)
    THEN Next400(InternalError)
    ELSE IF Truthy(body.status) /\ body.status \notin ValidStatuses
    THEN Next400(Response(400, Absent, StatusInvalid, Absent, NoData))
    ELSE PassOn

\* validateTask: the middleware of POST and PUT.  A truthy title that is no
\* string has no trim method: the call throws and the error handler answers.
validateTask(body) ==
    IF ~Truthy(body.title)
    THEN Next400(Response(400, Absent, TitleRequired, Absent, NoData))
    ELSE IF ~IsString(body.title)
    THEN Next400(InternalError)
    ELSE IF Trim(body.title.v) = <<>>
    THEN Next400(Response(400, Absent, TitleRequired, Absent, NoData))
    ELSE IF Truthy(body.status) /\ body.status \notin ValidStatuses
    THEN Next400(Response(400, Absent, StatusInvalid, Absent, NoData))
    ELSE PassOn

Digits == <<"0", "1", "2", "3", "4", "5", "6", "7", "8", "9">>

IsDigit(c) == \E i \in 1..Len(Digits) : Digits[i] = c

DigitValue(c) == (CHOOSE i \in 1..Len(Digits) : Digits[i] = c) - 1

RECURSIVE DigitsValue(_, _)
DigitsValue(s, acc) ==
    IF s # <<>> /\ IsDigit(Head(s))
    THEN DigitsValue(Tail(s), 10 * acc + DigitValue(Head(s)))
    ELSE acc

NaN == [nan |-> TRUE]

\* parseInt(id): the value of the longest prefix of decimal digits, NaN when
\* the text does not start with a digit.
ParseInt(s) ==
    IF s # <<>> /\ IsDigit(Head(s)) THEN [nan |-> FALSE, n |-> DigitsValue(s, 0)] ELSE NaN

\* task.id === parseInt(id): NaN equals nothing.
IdMatches(t, p) == ~p.nan /\ t.id = p.n

\* tasks.findIndex(task => task.id === parseInt(id)), counted from 1; 0 for -1.
FindIndex(ts, id) ==
    LET p == ParseInt(id)
        hits == {i \in 1..Len(ts) : IdMatches(ts[i], p)}
    IN  IF hits = {} THEN 0 ELSE CHOOSE i \in hits : \A j \in hits : i <= j

\* findTaskById: the position of the task found, 0 for undefined.
findTaskById(ts, id) == FindIndex(ts, id)

(* ------------------------------ handlers ------------------------------- *)

ListResponse(l) ==
    [code |-> 200, success |-> "true", error |-> Absent, message |-> Absent,
     data |-> ListData(l), count |-> Len(l)]

\* GET /api/tasks filtering on every status the query carries, '' included.
GetTasksFilterEmpty(ts, status) ==
    LET filteredTasks ==
            IF status # Undefined
            THEN SelectSeq(ts, LAMBDA task : task.status = status)
            ELSE ts
    IN  ListResponse(filteredTasks)

\* GET /api/tasks
GetTasks(ts, status) ==
    LET filteredTasks ==
            IF Truthy(status)
            THEN SelectSeq(ts, LAMBDA task : task.status = status)
            ELSE ts
    IN  ListResponse(filteredTasks)

\* GET /api/tasks/:id
GetTask(ts, id) ==
    LET i == findTaskById(ts, id)
    IN  IF i = 0 THEN TaskNotFound
        ELSE Response(200, "true", Absent, Absent, TaskData(ts[i]))

\* The task object of a create that stores the description as it was sent.
NewTaskUntrimmed(nid, body, t) ==
    [id |-> nid,
     title |-> Str(Trim(body.title.v)),
     description |-> IF Truthy(body.description) THEN body.description ELSE Str(<<>>),
     status |-> IF body.status = Undefined THEN PENDING ELSE body.status,
     createdAt |-> t,
     updatedAt |-> t]

\* The task object a create builds, once every field has been evaluated.
\* createdAt and updatedAt are two reads of the clock, one after the other;
\* both read t here, the clock standing still while a handler runs.
NewTask(nid, body, t) ==
    [id |-> nid,
     title |-> Str(Trim(body.title.v)),
     description |->
        IF Truthy(body.description) THEN Str(Trim(body.description.v)) ELSE Str(<<>>),
     status |-> IF body.status = Undefined THEN PENDING ELSE body.status,
     createdAt |-> t,
     updatedAt |-> t]

\* A counter left as it is: the id of one create is given to the next.
PostIncrementStuck(nid) == nid

\* id: nextId++ : the counter after the create has taken its id.
PostIncrement(nid) == nid + 1

\* POST /api/tasks.  The object literal evaluates id: nextId++ first, so a
\* description.trim() that throws leaves the counter incremented.
PostTask(ts, nid, t, body) ==
    LET v == validateTask(body)
    IN  IF ~v.next THEN Result(ts, nid, v.res)
        ELSE IF Truthy(body.description) /\ ~IsString(body.description)
        THEN Result(ts, PostIncrement(nid), InternalError)
        ELSE LET newTask == NewTask(nid, body, t)
             IN  Result(Append(ts, newTask), PostIncrement(nid),
                        Response(201, "true", Absent, "Task created successfully",
                                 TaskData(newTask)))

\* if (title) task.title = title.trim()
PutTitle(task, body) ==
    IF Truthy(body.title) THEN [task EXCEPT !.title = Str(Trim(body.title.v))] ELSE task

\* if (description) ... : an empty description skipped as an absent one is.
PutDescriptionIfTruthy(task, body) ==
    IF Truthy(body.description)
    THEN [task EXCEPT !.description = Str(Trim(body.description.v))]
    ELSE task

\* if (description !== undefined) task.description = description.trim()
PutDescription(task, body) ==
    IF body.description # Undefined
    THEN [task EXCEPT !.description = Str(Trim(body.description.v))]
    ELSE task

\* if (status) task.status = status
PutStatus(task, body) ==
    IF Truthy(body.status) THEN [task EXCEPT !.status = body.status] ELSE task

\* PUT /api/tasks/:id.  The task is changed in place, field by field: when
\* description.trim() throws, the title already written stays written.
PutTask(ts, nid, t, id, body) ==
    LET v == validateTask(body)
        i == findTaskById(ts, id)
    IN  IF ~v.next THEN Result(ts, nid, v.res)
        ELSE IF i = 0 THEN Result(ts, nid, TaskNotFound)
        ELSE IF body.description # Undefined /\ ~IsString(body.description)
        THEN Result([ts EXCEPT ![i] = PutTitle(ts[i], body)], nid, InternalError)
        ELSE LET task == [PutStatus(PutDescription(PutTitle(ts[i], body), body), body)
                            EXCEPT !.updatedAt = t]
             IN  Result([ts EXCEPT ![i] = task], nid,
                        Response(200, "true", Absent, "Task updated successfully",
                                 TaskData(task)))

\* PATCH with the status checked before the task is looked up, as PUT does.
PatchStatusValidateFirst(ts, nid, t, id, body) ==
    LET i == findTaskById(ts, id)
    IN  IF ~Truthy(body.status) \/ body.status \notin ValidStatuses
        THEN Result(ts, nid, Response(400, "false", StatusRequired, Absent, NoData))
        ELSE IF i = 0 THEN Result(ts, nid, TaskNotFound)
        ELSE LET task == [ts[i] EXCEPT !.status = body.status, !.updatedAt = t]
             IN  Result([ts EXCEPT ![i] = task], nid,
                        Response(200, "true", Absent, "Task status updated successfully",
                                 TaskData(task)))

\* PATCH stamping createdAt along with updatedAt.
PatchStatusRestamps(ts, nid, t, id, body) ==
    LET i == findTaskById(ts, id)
    IN  IF i = 0 THEN Result(ts, nid, TaskNotFound)
        ELSE IF ~Truthy(body.status) \/ body.status \notin ValidStatuses
        THEN Result(ts, nid, Response(400, "false", StatusRequired, Absent, NoData))
        ELSE LET task == [ts[i] EXCEPT !.status = body.status, !.createdAt = t,
                                       !.updatedAt = t]
             IN  Result([ts EXCEPT ![i] = task], nid,
                        Response(200, "true", Absent, "Task status updated successfully",
                                 TaskData(task)))

\* PATCH /api/tasks/:id/status
PatchStatus(ts, nid, t, id, body) ==
    LET i == findTaskById(ts, id)
    IN  IF i = 0 THEN Result(ts, nid, TaskNotFound)
        ELSE IF ~Truthy(body.status) \/ body.status \notin ValidStatuses
        THEN Result(ts, nid, Response(400, "false", StatusRequired, Absent, NoData))
        ELSE LET task == [ts[i] EXCEPT !.status = body.status, !.updatedAt = t]
             IN  Result([ts EXCEPT ![i] = task], nid,
                        Response(200, "true", Absent, "Task status updated successfully",
                                 TaskData(task)))

\* tasks.splice(taskIndex, 1)
Splice(ts, i) == SubSeq(ts, 1, i - 1) \o SubSeq(ts, i + 1, Len(ts))

\* DELETE /api/tasks/:id
DeleteTask(ts, nid, id) ==
    LET taskIndex == FindIndex(ts, id)
    IN  IF taskIndex = 0 THEN Result(ts, nid, TaskNotFound)
        ELSE Result(Splice(ts, taskIndex), nid,
                    Response(200, "true", Absent, "Task deleted successfully",
                             TaskData(ts[taskIndex])))

\* tasks.filter(task => task.status === s).length
CountStatus(ts, s) == Len(SelectSeq(ts, LAMBDA task : task.status = s))

\* GET /api/stats
GetStats(ts) ==
    Response(200, "true", Absent, Absent,
             [kind |-> "stats",
              total |-> Len(ts),
              pending |-> CountStatus(ts, PENDING),
              inProgress |-> CountStatus(ts, IN_PROGRESS),
              completed |-> CountStatus(ts, COMPLETED)])

(* ------------------------------ requests ------------------------------- *)

\* Titles a body may carry: absent, empty, blank, a text to trim, a number.
TitleInputs == {Undefined, Str(<<>>), Str(<<" ">>), Str(<<" ", "a", " ">>), Num}

DescriptionInputs == {Undefined, Null, Str(<<>>), Str(<<" ", "d", " ">>), Num}

StatusInputs ==
    {Undefined, Null, Str(<<>>), PENDING, IN_PROGRESS, COMPLETED, Str(<<"Pending">>), Num}

\* req.body, as express.json() leaves it
Bodies == [title : TitleInputs, description : DescriptionInputs, status : StatusInputs]

\* req.params.id: the decimal ids up to one past the counter's bound, digits
\* followed by a letter, and a letter alone.
IdParams == {<<Digits[n + 1]>> : n \in 1..(MaxId + 1)} \cup {<<"1", "a">>, <<"a">>}

\* req.query.status
QueryInputs == {Undefined, Str(<<>>), PENDING, IN_PROGRESS, COMPLETED, Str(<<"Pending">>)}

\* The bodies the actions send.  validateTask reads status only when the
\* title has passed, and the handlers read description only when status has
\* passed too: a body rejected at a field is sent without the fields after
\* it, which changes no response and no state.  The formulas range over
\* Bodies.
SentBodies ==
    {b \in Bodies :
        /\ b.title # Str(<<" ", "a", " ">>)
              => b.status = Undefined /\ b.description = Undefined
        /\ b.status \in {Str(<<"Pending">>), Num} => b.description = Undefined}

\* The ids the actions send: "1a" is parsed to 1 and "a" to NaN, which finds
\* what "1" and an id never issued find.
SentIds == {<<Digits[n + 1]>> : n \in 1..MaxId}

(* ------------------------------- actions ------------------------------- *)

ListTasks ==
    \E status \in QueryInputs :
        /\ GetTasks(tasks, status).code = 200
        /\ UNCHANGED vars

ReadTask ==
    \E id \in IdParams :
        /\ GetTask(tasks, id).code \in {200, 404}
        /\ UNCHANGED vars

CreateTask ==
    \E body \in SentBodies :
        \E r \in {PostTask(tasks, nextId, now, body)} :
            /\ r.nextId <= MaxId + 1
            /\ Len(r.tasks) <= MaxTasks
            /\ tasks' = r.tasks
            /\ nextId' = r.nextId
            /\ issued' = IF r.res.code = 201
                         THEN Append(issued, r.res.data.task.id) ELSE issued
            /\ UNCHANGED <<now, deleted, conc>>

UpdateTask ==
    \E id \in SentIds, body \in SentBodies :
        \E r \in {PutTask(tasks, nextId, now, id, body)} :
            /\ tasks' = r.tasks
            /\ nextId' = r.nextId
            /\ UNCHANGED <<now, issued, deleted, conc>>

SetStatus ==
    \E id \in SentIds, status \in StatusInputs :
        \E r \in {PatchStatus(tasks, nextId, now, id, [status |-> status])} :
            /\ tasks' = r.tasks
            /\ nextId' = r.nextId
            /\ UNCHANGED <<now, issued, deleted, conc>>

RemoveTask ==
    \E id \in SentIds :
        \E r \in {DeleteTask(tasks, nextId, id)} :
            /\ tasks' = r.tasks
            /\ nextId' = r.nextId
            /\ deleted' = IF r.res.code = 200
                          THEN deleted \cup {r.res.data.task.id} ELSE deleted
            /\ UNCHANGED <<now, issued, conc>>

ReadStats ==
    /\ GetStats(tasks).code = 200
    /\ UNCHANGED vars

UnmatchedRoute ==
    /\ RouteNotFound.code = 404
    /\ UNCHANGED vars

Next ==
    \/ ListTasks
    \/ ReadTask
    \/ CreateTask
    \/ UpdateTask
    \/ SetStatus
    \/ RemoveTask
    \/ ReadStats
    \/ UnmatchedRoute

Spec == Init /\ [][Next]_vars

(* ------------------------- the store with a clock ---------------------- *)

\* Time passes between two requests.
Tick ==
    /\ now < MaxClock
    /\ now' = now + 1
    /\ UNCHANGED <<tasks, nextId, issued, deleted, conc>>

\* The bodies sent while the clock runs: no title, a title alone, a title
\* with a null description (on which the update's description.trim() throws)
\* and a title with a status.
ClockBodies ==
    {b \in Bodies :
        \/ b.title = Undefined /\ b.description = Undefined /\ b.status = Undefined
        \/ /\ b.title = Str(<<" ", "a", " ">>)
           /\ \/ b.description = Undefined /\ b.status \in {Undefined, COMPLETED}
              \/ b.description = Null /\ b.status = Undefined}

\* The statuses patched while the clock runs.
ClockStatuses == {Undefined, COMPLETED}

ClockCreate ==
    \E body \in ClockBodies :
        \E r \in {PostTask(tasks, nextId, now, body)} :
            /\ r.nextId <= MaxId + 1
            /\ Len(r.tasks) <= MaxTasks
            /\ tasks' = r.tasks
            /\ nextId' = r.nextId
            /\ issued' = IF r.res.code = 201
                         THEN Append(issued, r.res.data.task.id) ELSE issued
            /\ UNCHANGED <<now, deleted, conc>>

ClockUpdate ==
    \E id \in SentIds, body \in ClockBodies :
        \E r \in {PutTask(tasks, nextId, now, id, body)} :
            /\ tasks' = r.tasks
            /\ nextId' = r.nextId
            /\ UNCHANGED <<now, issued, deleted, conc>>

ClockSetStatus ==
    \E id \in SentIds, status \in ClockStatuses :
        \E r \in {PatchStatus(tasks, nextId, now, id, [status |-> status])} :
            /\ tasks' = r.tasks
            /\ nextId' = r.nextId
            /\ UNCHANGED <<now, issued, deleted, conc>>

ClockRemove ==
    \E id \in SentIds :
        \E r \in {DeleteTask(tasks, nextId, id)} :
            /\ tasks' = r.tasks
            /\ nextId' = r.nextId
            /\ deleted' = IF r.res.code = 200
                          THEN deleted \cup {r.res.data.task.id} ELSE deleted
            /\ UNCHANGED <<now, issued, conc>>

NextClock ==
    \/ Tick
    \/ ClockCreate
    \/ ClockUpdate
    \/ ClockSetStatus
    \/ ClockRemove

SpecClock == Init /\ [][NextClock]_vars

(* ---------------------- requests in flight at once --------------------- *)

\* The bodies sent while requests overlap: no title (400), a title with a
\* description and a status (every field written), and a title with a number
\* for description (the create and the update throw after their first write).
ConcBodies ==
    {b \in Bodies :
        \/ b.title = Undefined /\ b.description = Undefined /\ b.status = Undefined
        \/ /\ b.title = Str(<<" ", "a", " ">>)
           /\ \/ b.description = Str(<<" ", "d", " ">>) /\ b.status = COMPLETED
              \/ b.description = Num /\ b.status = Undefined}

\* The ids addressed while requests overlap: the seed task and the next one.
ConcIds == {<<"1">>, <<"2">>}

\* The status patched while requests overlap.
ConcStatuses == {IN_PROGRESS}

\* A request as Express hands it to a route: the method and what it carries.
\* The updates carry the two bodies with a title.
Requests ==
    {[op |-> "POST", body |-> b] : b \in ConcBodies}
        \cup {[op |-> "PUT", id |-> i, body |-> b] :
                i \in ConcIds, b \in {x \in ConcBodies : x.title # Undefined}}
        \cup {[op |-> "PATCH", id |-> i, body |-> [status |-> s]] :
                i \in ConcIds, s \in ConcStatuses}
        \cup {[op |-> "DELETE", id |-> i] : i \in ConcIds}
        \cup {[op |-> "GET", id |-> i] : i \in ConcIds}

\* A request handled in one piece on the store st: the route it matches.
Serve(st, t, req) ==
    CASE req.op = "POST" -> PostTask(st.tasks, st.nextId, t, req.body)
      [] req.op = "PUT" -> PutTask(st.tasks, st.nextId, t, req.id, req.body)
      [] req.op = "PATCH" -> PatchStatus(st.tasks, st.nextId, t, req.id, req.body)
      [] req.op = "DELETE" -> DeleteTask(st.tasks, st.nextId, req.id)
      [] req.op = "GET" -> Result(st.tasks, st.nextId, GetTask(st.tasks, req.id))

\* The first statement a route runs: validateTask for POST and PUT, the
\* lookup for the others.
FirstPc(req) == IF req.op \in {"POST", "PUT"} THEN "validate" ELSE "lookup"

\* A handler that gives the thread up before tasks.push(newTask).
YieldsBeforePush(pc) == pc = "push"

\* Whether a handler gives the thread up before the statement at pc.  No
\* handler awaits or defers a callback, and validateTask calls next() as a
\* plain call: a handler leaves the thread only by returning.
Yields(pc) == FALSE

\* A client's handler before the statement at pc, with its local loc.
At(f, pc, loc) == [pc |-> pc, req |-> f.req, want |-> f.want, loc |-> loc]

\* A client's handler after res.json(...).
Done(f, res) == [pc |-> "done", req |-> f.req, want |-> f.want, res |-> res]

\* The store and the client after one statement.
Micro(ts, nid, f) == [tasks |-> ts, nextId |-> nid, cl |-> f]

\* POST /api/tasks, a statement at a time.
PostStep(ts, nid, t, f) ==
    LET body == f.req.body
    IN  CASE f.pc = "validate" ->
                LET v == validateTask(body)
                IN  IF v.next THEN Micro(ts, nid, At(f, "increment", Absent))
                    ELSE Micro(ts, nid, Done(f, v.res))
          [] f.pc = "increment" ->
                Micro(ts, PostIncrement(nid), At(f, "build", nid))
          [] f.pc = "build" ->
                IF Truthy(body.description) /\ ~IsString(body.description)
                THEN Micro(ts, nid, Done(f, InternalError))
                ELSE Micro(ts, nid, At(f, "push", NewTask(f.loc, body, t)))
          [] f.pc = "push" ->
                Micro(Append(ts, f.loc), nid,
                      Done(f, Response(201, "true", Absent, "Task created successfully",
                                       TaskData(f.loc))))

\* PUT /api/tasks/:id, a statement at a time; loc is the position of task.
PutStep(ts, nid, t, f) ==
    LET body == f.req.body
        i == f.loc
    IN  CASE f.pc = "validate" ->
                LET v == validateTask(body)
                IN  IF v.next THEN Micro(ts, nid, At(f, "lookup", Absent))
                    ELSE Micro(ts, nid, Done(f, v.res))
          [] f.pc = "lookup" ->
                LET found == findTaskById(ts, f.req.id)
                IN  IF found = 0 THEN Micro(ts, nid, Done(f, TaskNotFound))
                    ELSE Micro(ts, nid, At(f, "title", found))
          [] f.pc = "title" ->
                Micro([ts EXCEPT ![i] = PutTitle(ts[i], body)], nid,
                      At(f, "description", i))
          [] f.pc = "description" ->
                IF body.description # Undefined /\ ~IsString(body.description)
                THEN Micro(ts, nid, Done(f, InternalError))
                ELSE Micro([ts EXCEPT ![i] = PutDescription(ts[i], body)], nid,
                           At(f, "status", i))
          [] f.pc = "status" ->
                Micro([ts EXCEPT ![i] = PutStatus(ts[i], body)], nid, At(f, "stamp", i))
          [] f.pc = "stamp" ->
                LET task == [ts[i] EXCEPT !.updatedAt = t]
                IN  Micro([ts EXCEPT ![i] = task], nid,
                          Done(f, Response(200, "true", Absent,
                                           "Task updated successfully", TaskData(task))))

\* PATCH /api/tasks/:id/status, a statement at a time.
PatchStep(ts, nid, t, f) ==
    LET status == f.req.body.status
        i == f.loc
    IN  CASE f.pc = "lookup" ->
                LET found == findTaskById(ts, f.req.id)
                IN  IF found = 0 THEN Micro(ts, nid, Done(f, TaskNotFound))
                    ELSE Micro(ts, nid, At(f, "check", found))
          [] f.pc = "check" ->
                IF ~Truthy(status) \/ status \notin ValidStatuses
                THEN Micro(ts, nid,
                           Done(f, Response(400, "false", StatusRequired, Absent, NoData)))
                ELSE Micro(ts, nid, At(f, "status", i))
          [] f.pc = "status" ->
                Micro([ts EXCEPT ![i].status = status], nid, At(f, "stamp", i))
          [] f.pc = "stamp" ->
                LET task == [ts[i] EXCEPT !.updatedAt = t]
                IN  Micro([ts EXCEPT ![i] = task], nid,
                          Done(f, Response(200, "true", Absent,
                                           "Task status updated successfully",
                                           TaskData(task))))

\* DELETE /api/tasks/:id, a statement at a time.
DeleteStep(ts, nid, f) ==
    CASE f.pc = "lookup" ->
            LET taskIndex == FindIndex(ts, f.req.id)
            IN  IF taskIndex = 0 THEN Micro(ts, nid, Done(f, TaskNotFound))
                ELSE Micro(ts, nid, At(f, "splice", taskIndex))
      [] f.pc = "splice" ->
            Micro(Splice(ts, f.loc), nid,
                  Done(f, Response(200, "true", Absent, "Task deleted successfully",
                                   TaskData(ts[f.loc]))))

\* GET /api/tasks/:id: the lookup and the answer.
GetStep(ts, nid, f) == Micro(ts, nid, Done(f, GetTask(ts, f.req.id)))

\* The clients whose handler has started and has not answered.
Started == {c \in Clients : inflight[c].pc \notin {"idle", "queued", "done"}}

\* The creates received and not answered.
CreatesInFlight ==
    {c \in Clients : inflight[c].pc \notin {"idle", "done"} /\ inflight[c].req.op = "POST"}

\* A request arrives while others may be waiting or running.
Arrive(c) ==
    \E req \in Requests :
        /\ inflight[c].pc \in {"idle", "done"}
        /\ req.op = "POST" =>
              /\ nextId + Cardinality(CreatesInFlight) <= MaxId
              /\ Len(tasks) + Cardinality(CreatesInFlight) < MaxTasks
        /\ inflight' = [inflight EXCEPT ![c] = [pc |-> "queued", req |-> req]]
        /\ UNCHANGED <<tasks, nextId, now, issued, deleted, running, serial>>

\* The event loop hands a waiting request to its route when no handler
\* holds the thread.  The one-at-a-time server takes the request here.
Dispatch(c) ==
    /\ running = None
    /\ inflight[c].pc = "queued"
    /\ \E r \in {Serve(serial, now, inflight[c].req)} :
          /\ serial' = [tasks |-> r.tasks, nextId |-> r.nextId]
          /\ inflight' = [inflight EXCEPT ![c] =
                            [pc |-> FirstPc(@.req), req |-> @.req,
                             want |-> r.res, loc |-> Absent]]
    /\ running' = c
    /\ UNCHANGED <<tasks, nextId, now, issued, deleted>>

\* A started handler may run its next statement when it holds the thread, or
\* when nobody does.
MayRun(c, op) ==
    /\ c \in Started
    /\ inflight[c].req.op = op
    /\ running \in {c, None}

\* The statement has run: the handler keeps the thread unless it has
\* answered or gives the thread up.
Ran(c, m) ==
    /\ tasks' = m.tasks
    /\ nextId' = m.nextId
    /\ inflight' = [inflight EXCEPT ![c] = m.cl]
    /\ running' = IF m.cl.pc = "done" \/ Yields(m.cl.pc) THEN None ELSE c
    /\ UNCHANGED <<now, serial>>

StepCreate(c) ==
    /\ MayRun(c, "POST")
    /\ \E m \in {PostStep(tasks, nextId, now, inflight[c])} :
          /\ Ran(c, m)
          /\ issued' = IF m.cl.pc = "done" /\ m.cl.res.code = 201
                       THEN Append(issued, m.cl.res.data.task.id) ELSE issued
    /\ UNCHANGED deleted

StepUpdate(c) ==
    /\ MayRun(c, "PUT")
    /\ Ran(c, PutStep(tasks, nextId, now, inflight[c]))
    /\ UNCHANGED <<issued, deleted>>

StepSetStatus(c) ==
    /\ MayRun(c, "PATCH")
    /\ Ran(c, PatchStep(tasks, nextId, now, inflight[c]))
    /\ UNCHANGED <<issued, deleted>>

StepRemove(c) ==
    /\ MayRun(c, "DELETE")
    /\ \E m \in {DeleteStep(tasks, nextId, inflight[c])} :
          /\ Ran(c, m)
          /\ deleted' = IF m.cl.pc = "done" /\ m.cl.res.code = 200
                        THEN deleted \cup {m.cl.res.data.task.id} ELSE deleted
    /\ UNCHANGED issued

StepRead(c) ==
    /\ MayRun(c, "GET")
    /\ Ran(c, GetStep(tasks, nextId, inflight[c]))
    /\ UNCHANGED <<issued, deleted>>

NextConc ==
    \/ \E c \in Clients : Arrive(c)
    \/ \E c \in Clients : Dispatch(c)
    \/ \E c \in Clients : StepCreate(c)
    \/ \E c \in Clients : StepUpdate(c)
    \/ \E c \in Clients : StepSetStatus(c)
    \/ \E c \in Clients : StepRemove(c)
    \/ \E c \in Clients : StepRead(c)

SpecConc == Init /\ [][NextConc]_vars

(* ------------------------- notions of the claims ----------------------- *)

\* The decimal text of an id, as a client writes it in the path.
IdParam(n) == <<Digits[n + 1]>>

Positions == 1..Len(tasks)

\* A text with no token but blanks: the empty and the whitespace-only text.
IsBlank(s) == \A k \in 1..Len(s) : s[k] = " "

\* A title validateTask is meant to reject: absent, empty or whitespace-only.
MissingTitle(x) == x = Undefined \/ (IsString(x) /\ IsBlank(x.v))

\* A title that is a text with something in it.
GoodTitle(x) == IsString(x) /\ ~IsBlank(x.v)

AbsentOrString(x) == x = Undefined \/ IsString(x)

\* A text that is not empty and neither starts nor ends with a blank.
TrimmedNonEmpty(s) == s # <<>> /\ Head(s) # " " /\ s[Len(s)] # " "

Post(body) == PostTask(tasks, nextId, now, body)

Put(id, body) == PutTask(tasks, nextId, now, id, body)

Patch(id, status) == PatchStatus(tasks, nextId, now, id, [status |-> status])

Delete(id) == DeleteTask(tasks, nextId, id)

\* The store as a request leaves it.
StoreUnchanged(r) == r.tasks = tasks /\ r.nextId = nextId

(* --------------------------------- C1 ---------------------------------- *)

\* C1: in every reachable state the status of every stored task is one of
\* 'pending', 'in-progress', 'completed'.
C1_StatusAlwaysValid == \A i \in Positions : tasks[i].status \in ValidStatuses

(* --------------------------------- C2 ---------------------------------- *)

\* C2: no two stored tasks share an id; the ids the successful creates have
\* returned are all greater than the seed id 1 and strictly increasing; and
\* a create that succeeds now returns an id greater than all of them, which
\* no stored task and no deleted task has.
C2_IdsUniqueNeverReused ==
    /\ \A i, j \in Positions : i # j => tasks[i].id # tasks[j].id
    /\ \A k \in 1..Len(issued) :
          /\ issued[k] > 1
          /\ \A m \in 1..(k - 1) : issued[m] < issued[k]
    /\ \A body \in Bodies :
          LET r == Post(body)
          IN  r.res.code = 201 =>
                LET id == r.res.data.task.id
                IN  /\ id > 1
                    /\ \A k \in 1..Len(issued) : issued[k] < id
                    /\ id \notin deleted
                    /\ \A i \in Positions : tasks[i].id # id

\* Two creates with the first one's task deleted, and a third create accepted.
C2_Witness ==
    /\ Len(issued) >= 2
    /\ issued[1] \in deleted
    /\ \E i \in Positions : tasks[i].id = issued[2]

(* --------------------------------- C3 ---------------------------------- *)

\* C3: an update of an existing task whose body omits title and supplies a
\* valid status and/or a description succeeds with 200, changes the supplied
\* fields and updatedAt only, and leaves the title unchanged.
C3_UpdateWithoutTitle ==
    \A i \in Positions : \A body \in Bodies :
        ( /\ body.title = Undefined
          /\ body.status \in ValidStatuses \cup {Undefined}
          /\ AbsentOrString(body.description)
          /\ body.status # Undefined \/ body.description # Undefined )
        => LET r == Put(IdParam(tasks[i].id), body)
               old == tasks[i]
           IN  /\ r.res.code = 200
               /\ r.nextId = nextId
               /\ Len(r.tasks) = Len(tasks)
               /\ \A j \in Positions : j # i => r.tasks[j] = tasks[j]
               /\ r.tasks[i].id = old.id
               /\ r.tasks[i].title = old.title
               /\ r.tasks[i].createdAt = old.createdAt
               /\ r.tasks[i].updatedAt = now
               /\ r.tasks[i].status =
                     IF body.status = Undefined THEN old.status ELSE body.status
               /\ r.tasks[i].description =
                     IF body.description = Undefined THEN old.description
                     ELSE Str(Trim(body.description.v))

(* --------------------------------- C4 ---------------------------------- *)

\* C4: an update for an id no stored task has is answered 404, whatever the
\* body.
C4_UpdateMissingIs404 ==
    \A id \in IdParams : \A body \in Bodies :
        findTaskById(tasks, id) = 0 => Put(id, body).res.code = 404

(* --------------------------------- C5 ---------------------------------- *)

\* C5: the counts of Stats sum to total; total is the number of stored tasks
\* and each count the number of stored tasks with that status.
C5_StatsSumToTotal ==
    LET d == GetStats(tasks).data
    IN  /\ d.total = Len(tasks)
        /\ d.pending = Cardinality({i \in Positions : tasks[i].status = PENDING})
        /\ d.inProgress = Cardinality({i \in Positions : tasks[i].status = IN_PROGRESS})
        /\ d.completed = Cardinality({i \in Positions : tasks[i].status = COMPLETED})
        /\ d.pending + d.inProgress + d.completed = d.total

(* --------------------------------- C6 ---------------------------------- *)

\* C6: create with a valid title, update of an existing task with a valid
\* title and status-patch of an existing task accept a status that is one of
\* the three values and store it, and reject every other string with 400,
\* the store unchanged.
C6_StatusAcceptedOrRejected ==
    \A status \in {x \in StatusInputs : IsString(x)} :
        /\ \A body \in Bodies :
              (GoodTitle(body.title) /\ AbsentOrString(body.description)
                  /\ body.status = status)
              => /\ LET r == Post(body)
                    IN  IF status \in ValidStatuses
                        THEN r.res.code = 201 /\ r.res.data.task.status = status
                        ELSE r.res.code = 400 /\ StoreUnchanged(r)
                 /\ \A i \in Positions :
                       LET r == Put(IdParam(tasks[i].id), body)
                       IN  IF status \in ValidStatuses
                           THEN r.res.code = 200 /\ r.tasks[i].status = status
                           ELSE r.res.code = 400 /\ StoreUnchanged(r)
        /\ \A i \in Positions :
              LET r == Patch(IdParam(tasks[i].id), status)
              IN  IF status \in ValidStatuses
                  THEN r.res.code = 200 /\ r.tasks[i].status = status
                  ELSE r.res.code = 400 /\ StoreUnchanged(r)

(* --------------------------------- C7 ---------------------------------- *)

\* C7: a create whose title is absent, empty or whitespace-only is answered
\* 400 and leaves the collection and the ID counter unchanged; and every
\* stored title is a text that is not empty and is trimmed.
C7_BlankTitleRejected ==
    /\ \A body \in Bodies :
          MissingTitle(body.title) =>
              LET r == Post(body) IN r.res.code = 400 /\ StoreUnchanged(r)
    /\ \A i \in Positions :
          IsString(tasks[i].title) /\ TrimmedNonEmpty(tasks[i].title.v)

\* Creates and an update have stored titles sent with blanks around them,
\* the seed's among them, and a create with a blank title is rejected there.
C7_Witness ==
    /\ issued # <<>>
    /\ \E i, j \in Positions :
          /\ tasks[i].id = 1 /\ tasks[i].title = Str(<<"a">>)
          /\ tasks[j].id > 1 /\ tasks[j].title = Str(<<"a">>)
    /\ \E body \in Bodies :
          /\ body.title = Str(<<" ">>)
          /\ Post(body).res.code = 400
          /\ StoreUnchanged(Post(body))

(* --------------------------------- C8 ---------------------------------- *)

\* An error response carries success: false and an error message.
ErrorEnvelope(res) ==
    res.code \in {400, 404, 500} => res.success = "false" /\ res.error # Absent

\* C8: every error response of every endpoint has the envelope
\* {success: false, error: <message>}.
C8_ErrorEnvelopeUniform ==
    /\ \A body \in Bodies : ErrorEnvelope(Post(body).res)
    /\ \A id \in IdParams :
          /\ ErrorEnvelope(GetTask(tasks, id))
          /\ ErrorEnvelope(Delete(id).res)
          /\ \A body \in Bodies : ErrorEnvelope(Put(id, body).res)
          /\ \A status \in StatusInputs : ErrorEnvelope(Patch(id, status).res)
    /\ ErrorEnvelope(RouteNotFound)
    /\ ErrorEnvelope(InternalError)

(* --------------------------------- C9 ---------------------------------- *)

\* C9: once a delete of an id has succeeded, every Get, Update, SetStatus
\* and Delete for that id is answered 404; and the delete of an existing id
\* is answered 200 with the removed record, a second one 404.
C9_DeletedStaysNotFound ==
    /\ \A n \in deleted :
          LET id == IdParam(n)
          IN  /\ GetTask(tasks, id).code = 404
              /\ Delete(id).res.code = 404
              /\ \A status \in StatusInputs : Patch(id, status).res.code = 404
              /\ \A body \in Bodies : Put(id, body).res.code = 404
    /\ \A i \in Positions :
          LET id == IdParam(tasks[i].id)
              r == Delete(id)
          IN  /\ r.res.code = 200
              /\ r.res.data = TaskData(tasks[i])
              /\ DeleteTask(r.tasks, r.nextId, id).res.code = 404

(* --------------------------------- C10 --------------------------------- *)

RECURSIVE Matching(_, _)
\* The tasks of ts whose status is s, in the order of ts.
Matching(ts, s) ==
    IF ts = <<>> THEN <<>>
    ELSE IF Head(ts).status = s THEN <<Head(ts)>> \o Matching(Tail(ts), s)
    ELSE Matching(Tail(ts), s)

\* A list response: 200, the list, and count equal to its length.
ListsExactly(res, l) ==
    res.code = 200 /\ res.data = ListData(l) /\ res.count = Len(l)

\* C10 as stated: List with a supplied filter value s, the empty string
\* included, returns exactly the tasks whose status is s, in insertion
\* order, the empty list when there is none; without a filter, all tasks.
C10_ListFilterExact ==
    \A s \in QueryInputs :
        LET res == GetTasks(tasks, s)
        IN  IF s = Undefined THEN ListsExactly(res, tasks)
            ELSE /\ ListsExactly(res, Matching(tasks, s))
                 /\ (\A i \in Positions : tasks[i].status # s) => res.count = 0

\* C10 amended: a filter value that is not the empty string selects exactly
\* the tasks whose status is that value, in insertion order (none, with
\* count 0, when no task has it); an empty filter value is no filter, and
\* returns all tasks as no filter does.
C10_ListFilterNonEmpty ==
    \A s \in QueryInputs :
        LET res == GetTasks(tasks, s)
        IN  IF s = Undefined \/ s = Str(<<>>) THEN ListsExactly(res, tasks)
            ELSE /\ ListsExactly(res, Matching(tasks, s))
                 /\ (\A i \in Positions : tasks[i].status # s) => res.count = 0

\* Two tasks of different statuses, one of them completed: the filter
\* 'completed' lists one of them, and the empty filter lists both.
C10_Witness ==
    /\ Len(tasks) = 2
    /\ tasks[1].status = PENDING
    /\ tasks[2].status = COMPLETED
    /\ GetTasks(tasks, COMPLETED).data = ListData(<<tasks[2]>>)
    /\ GetTasks(tasks, Str(<<>>)).count = 2
    /\ GetTasks(tasks, Str(<<"Pending">>)).count = 0

(* --------------------------------- C11 --------------------------------- *)

\* Task i of the collection ts differs from task i of the store in its
\* title, its description or its status.
FieldChanged(ts, i) ==
    \/ ts[i].title # tasks[i].title
    \/ ts[i].description # tasks[i].description
    \/ ts[i].status # tasks[i].status

\* C11: a request that changes the title, the description or the status of
\* a stored task sets that task's updatedAt to the time of the request, and
\* createdAt <= updatedAt holds for every stored task.
C11_ChangeRefreshesUpdatedAt ==
    /\ \A i \in Positions : tasks[i].createdAt <= tasks[i].updatedAt
    /\ \A i \in Positions :
          LET id == IdParam(tasks[i].id)
          IN  /\ \A body \in Bodies :
                    LET r == Put(id, body)
                    IN  FieldChanged(r.tasks, i) => r.tasks[i].updatedAt = now
              /\ \A status \in StatusInputs :
                    LET r == Patch(id, status)
                    IN  FieldChanged(r.tasks, i) => r.tasks[i].updatedAt = now

(* --------------------------------- C12 --------------------------------- *)

\* out is the text in with the blanks at its two ends taken away.
IsTrimOf(out, in) ==
    /\ out = <<>> \/ TrimmedNonEmpty(out)
    /\ \E i \in 0..Len(in) :
          /\ i + Len(out) <= Len(in)
          /\ IsBlank(SubSeq(in, 1, i))
          /\ SubSeq(in, i + 1, i + Len(out)) = out
          /\ IsBlank(SubSeq(in, i + Len(out) + 1, Len(in)))

\* C12: after a successful create with title t, an optional description d
\* and an optional valid status s, a Get of the returned id is answered 200
\* with the record the create returned; its title is t trimmed, its
\* description d trimmed ('' when d is absent) and its status s ('pending'
\* when s is absent).
C12_CreateThenGet ==
    \A body \in Bodies :
        LET r == Post(body)
        IN  ( /\ r.res.code = 201
              /\ body.status \in ValidStatuses \cup {Undefined}
              /\ AbsentOrString(body.description) )
            => LET created == r.res.data.task
                   got == GetTask(r.tasks, IdParam(created.id))
               IN  /\ got.code = 200
                   /\ got.data = TaskData(created)
                   /\ IsString(created.title)
                   /\ IsTrimOf(created.title.v, body.title.v)
                   /\ IsString(created.description)
                   /\ IF body.description = Undefined
                      THEN created.description = Str(<<>>)
                      ELSE IsTrimOf(created.description.v, body.description.v)
                   /\ created.status =
                         IF body.status = Undefined THEN PENDING ELSE body.status

\* A task created from " a ", " d " and 'completed' is stored trimmed, a Get
\* of its id returns it, and one more create can be sent.
C12_Witness ==
    /\ \E i \in Positions :
          /\ tasks[i].id > 1
          /\ tasks[i].title = Str(<<"a">>)
          /\ tasks[i].description = Str(<<"d">>)
          /\ tasks[i].status = COMPLETED
          /\ GetTask(tasks, IdParam(tasks[i].id)).data = TaskData(tasks[i])
    /\ \E body \in Bodies :
          body.description = Str(<<" ", "d", " ">>) /\ Post(body).res.code = 201

(* --------------------------------- C13 --------------------------------- *)

\* C13 as stated: in an update of an existing task with a valid title, a
\* description present as '' sets the stored description to '', and an
\* absent description leaves the stored description unchanged.
C13_EmptyClearsAbsentKeeps ==
    \A i \in Positions : \A body \in Bodies :
        GoodTitle(body.title) =>
            LET r == Put(IdParam(tasks[i].id), body)
            IN  /\ body.description = Str(<<>>)
                      => r.tasks[i].description = Str(<<>>)
                /\ body.description = Undefined
                      => r.tasks[i].description = tasks[i].description

\* C13 amended: the same, for an update whose status, when supplied as a
\* non-empty value, is one of the three values (an update with any other
\* status is rejected with 400 and changes nothing).
C13_EmptyClearsAbsentKeepsWhenAccepted ==
    \A i \in Positions : \A body \in Bodies :
        (GoodTitle(body.title) /\ (Truthy(body.status) => body.status \in ValidStatuses))
        => LET r == Put(IdParam(tasks[i].id), body)
           IN  /\ body.description = Str(<<>>)
                     => r.res.code = 200 /\ r.tasks[i].description = Str(<<>>)
               /\ body.description = Undefined
                     => r.res.code = 200 /\ r.tasks[i].description = tasks[i].description

\* The seed's description has been cleared by an update, another task keeps
\* a description, and an update without description would keep it.
C13_Witness ==
    \E i, j \in Positions :
        /\ tasks[i].id = 1
        /\ tasks[i].description = Str(<<>>)
        /\ tasks[j].description = Str(<<"d">>)
        /\ \E body \in Bodies :
              /\ GoodTitle(body.title)
              /\ body.description = Undefined
              /\ Put(IdParam(tasks[j].id), body).tasks[j].description = Str(<<"d">>)

(* --------------------------------- C14 --------------------------------- *)

\* The decimal ids a client may name: those the counter can have issued and
\* one more.
Ids == 1..(MaxId + 1)

\* C14: a status-patch of an id no task has is answered 404 whatever the
\* body; of an existing id with a status missing or not one of the three
\* values, 400 with the store unchanged; otherwise 200, and only the status
\* and updatedAt of that one task change, from any status to any status.
C14_SetStatusFrame ==
    \A n \in Ids : \A status \in StatusInputs :
        LET r == Patch(IdParam(n), status)
            at == {i \in Positions : tasks[i].id = n}
        IN  IF at = {} THEN r.res.code = 404 /\ StoreUnchanged(r)
            ELSE IF status \notin ValidStatuses
            THEN r.res.code = 400 /\ StoreUnchanged(r)
            ELSE /\ r.res.code = 200
                 /\ r.nextId = nextId
                 /\ Len(r.tasks) = Len(tasks)
                 /\ \A i \in Positions :
                       IF i \in at
                       THEN /\ r.tasks[i].status = status
                            /\ r.tasks[i].id = tasks[i].id
                            /\ r.tasks[i].title = tasks[i].title
                            /\ r.tasks[i].description = tasks[i].description
                            /\ r.tasks[i].createdAt = tasks[i].createdAt
                            /\ r.res.data = TaskData(r.tasks[i])
                       ELSE r.tasks[i] = tasks[i]

\* Two tasks, the second one in progress, and a deleted id: the second is
\* patched to its own status and back to pending, the deleted id is 404.
C14_Witness ==
    /\ Len(tasks) = 2
    /\ tasks[2].status = IN_PROGRESS
    /\ Patch(IdParam(tasks[2].id), IN_PROGRESS).res.code = 200
    /\ Patch(IdParam(tasks[2].id), PENDING).tasks[2].status = PENDING
    /\ Patch(IdParam(tasks[2].id), Str(<<"Pending">>)).res.code = 400
    /\ \E n \in deleted : Patch(IdParam(n), Undefined).res.code = 404

(* --------------------------------- C15 --------------------------------- *)

\* What a task keeps for life.
Key(task) == <<task.id, task.createdAt>>

\* A step keeps the id and createdAt of every task that stays: the tasks are
\* the same ones in the same places, or one more at the end, or one fewer.
KeysKept ==
    \/ /\ Len(tasks') = Len(tasks)
       /\ \A i \in Positions : Key(tasks'[i]) = Key(tasks[i])
    \/ /\ Len(tasks') = Len(tasks) + 1
       /\ \A i \in Positions : Key(tasks'[i]) = Key(tasks[i])
    \/ /\ Len(tasks') = Len(tasks) - 1
       /\ \E k \in Positions :
             \A i \in 1..Len(tasks') :
                 Key(tasks'[i]) = Key(tasks[IF i < k THEN i ELSE i + 1])

\* C15: from the create that adds a task to the delete that removes it, no
\* request changes its id or its createdAt.
C15_IdAndCreatedAtFixed == [][KeysKept]_vars

\* The seed is gone, and a task created at time 1 was updated at time 2.
C15_Witness ==
    /\ 1 \in deleted
    /\ \E i \in Positions :
          tasks[i].id > 1 /\ tasks[i].createdAt = 1 /\ tasks[i].updatedAt = 2

(* --------------------------------- C16 --------------------------------- *)

\* A text of decimal digits and nothing else.
IsDecimal(s) == s # <<>> /\ \A k \in 1..Len(s) : IsDigit(s[k])

\* C16: an id parameter that is not a decimal integer matches no task: Get,
\* Update, SetStatus and Delete answer 404 and leave the store unchanged.
C16_NonDecimalIdNotFound ==
    \A id \in IdParams :
        ~IsDecimal(id) =>
            /\ GetTask(tasks, id).code = 404
            /\ Delete(id).res.code = 404 /\ StoreUnchanged(Delete(id))
            /\ \A status \in StatusInputs :
                  Patch(id, status).res.code = 404 /\ StoreUnchanged(Patch(id, status))
            /\ \A body \in Bodies :
                  Put(id, body).res.code = 404 /\ StoreUnchanged(Put(id, body))

(* --------------------------------- C18 --------------------------------- *)

IsError(res) == res.code \in {400, 404, 500}

\* C18: a request answered 400, 404 or 500 leaves the task collection and
\* the ID counter as they were, whatever its body.
C18_ErrorsChangeNothing ==
    /\ \A body \in Bodies :
          IsError(Post(body).res) => StoreUnchanged(Post(body))
    /\ \A id \in IdParams :
          /\ IsError(Delete(id).res) => StoreUnchanged(Delete(id))
          /\ \A body \in Bodies :
                IsError(Put(id, body).res) => StoreUnchanged(Put(id, body))
          /\ \A status \in StatusInputs :
                IsError(Patch(id, status).res) => StoreUnchanged(Patch(id, status))

(* --------------------------------- C19 --------------------------------- *)

\* C19: nextId is greater than the id of every stored task and equals 2
\* plus the number of successful creates so far, and the collection is in
\* strictly increasing order of id.
C19_CounterAndOrder ==
    /\ \A i \in Positions : tasks[i].id < nextId
    /\ nextId = 2 + Len(issued)
    /\ \A i, j \in Positions : i < j => tasks[i].id < tasks[j].id

(* --------------------------------- C17 --------------------------------- *)

\* No handler is between its first statement and its answer.
Quiescent == Started = {}

\* C17: each request's validation, lookup and mutation of the collection and
\* the counter run as one atomic step with respect to the other requests.
\* With any requests in flight at once, every answer given is the answer the
\* request gets when the requests are served one at a time in the order their
\* handlers started, and whenever no handler is running the collection and
\* the counter are those of that sequential run; two creates never answer
\* with the same id.
C17_AtomicRequests ==
    /\ \A c \in Clients : inflight[c].pc = "done" => inflight[c].res = inflight[c].want
    /\ Quiescent => tasks = serial.tasks /\ nextId = serial.nextId
    /\ \A c, d \in Clients :
          /\ c # d
          /\ inflight[c].pc = "done" /\ inflight[c].res.code = 201
          /\ inflight[d].pc = "done" /\ inflight[d].res.code = 201
          => inflight[c].res.data.task.id # inflight[d].res.data.task.id

\* An update has written the title and not yet the description, so that the
\* collection is in neither its old nor its new state, while a read of the
\* same task waits in flight.
C17_Witness ==
    \E c, d \in Clients :
        /\ inflight[c].pc = "description"
        /\ inflight[c].req.body.description = Str(<<" ", "d", " ">>)
        /\ tasks # serial.tasks
        /\ inflight[d].pc = "queued"
        /\ inflight[d].req = [op |-> "GET", id |-> inflight[c].req.id]

====
